---- MODULE Spec2Model ----
(***************************************************************************)
(* State-machine models of the three components of the portfolio mini app: *)
(*   - PortfolioRegistry (src/contracts/PortfolioRegistry.sol),            *)
(*   - the price proxy GET handler (src/app/api/prices/route.ts),          *)
(*   - the Portfolio view (src/lib/portfolio-abi.ts, lines 39-308).        *)
(* The components share no state, so each has its own specification        *)
(* (SpecRegistry, SpecProxy, SpecView) over its own variables; the other   *)
(* components' variables stay at their initial values.                     *)
(***************************************************************************)
EXTENDS Integers, Sequences, FiniteSets

VARIABLES
  \* PortfolioRegistry
  amountOf,     \* mapping(address => mapping(bytes32 => uint128))
  lastUpdate,   \* event log, AssetUpdated: per (owner, assetId) topic pair the amount
                \* of the most recent entry, <<a>>, or <<>> when there is none
  lastBatch,    \* event log, AssetsBatchUpdated: the most recent entry, or <<>>
  lastCall,     \* the most recent external call and its outcome
  \* price proxy, one GET invocation at a time
  pxPc,         \* "idle", "fetching" (await fetch), "parsing" (await res.json()), "done"
  pxReq,        \* the request being served
  pxIds,        \* ids, the trimmed identifier list
  pxCalls,      \* upstream requests issued by the current invocation
  pxUpstream,   \* what the upstream did for the current invocation
  pxThrown,     \* where an exception was thrown: "none", "url", "fetch", "json"
  pxResult,     \* the NextResponse returned
  \* Portfolio view
  mounted,      \* the component has rendered and run its effects once
  holdings,     \* useState<Holding[]>: sequence of [id, amount]
  prices,       \* useState<PriceMap>: identifier -> price
  loading,      \* useState(false)
  error,        \* useState<string | null>: "null" or the message
  inflight,     \* unresolved fetchPrices requests in issue order, each with the value
                \* of its effect instance's `ignore` variable
  lastResp      \* the response handled by the last step, if that step handled one

regVars == <<amountOf, lastUpdate, lastBatch, lastCall>>

pxVars == <<pxPc, pxReq, pxIds, pxCalls, pxUpstream, pxThrown, pxResult>>

viewVars == <<mounted, holdings, prices, loading, error, inflight, lastResp>>

vars == <<regVars, pxVars, viewVars>>

\* What each component leaves alone: the other components' variables.
notReg == <<pxVars, viewVars>>
notPx == <<regVars, viewVars>>
notView == <<regVars, pxVars>>

(***************************************************************************)
(* Bounds of the model.                                                    *)
(***************************************************************************)
MaxLen == 2        \* longest calldata array passed to setMany / getMany
MaxParamLen == 3   \* longest `ids` query parameter, in characters
MaxHoldings == 2   \* the picker stops adding rows at this many holdings
MaxInflight == 3   \* no new price request is issued while this many are unresolved

(***************************************************************************)
(* Generic helpers.                                                        *)
(***************************************************************************)
SeqsUpTo(S, n) == UNION {[1..k -> S] : k \in 0..n}

Range(s) == {s[i] : i \in 1..Len(s)}

Min(a, b) == IF a <= b THEN a ELSE b

(***************************************************************************)
(* PortfolioRegistry                                                       *)
(***************************************************************************)
Owners == {"alice", "bob"}          \* msg.sender / owner addresses
AssetIds == {"k1", "k2"}            \* bytes32 asset ids
Amounts == {0, 1}                   \* uint128 inputs (the contract does no arithmetic on them)

\* lastCall.ids / lastCall.amounts hold the calldata of a call that executed; a
\* call that reverted at the require is recorded by its array lengths only.
\* lastCall.follows marks a getMany(owner, ids) issued directly after a successful
\* setMany(ids, batch) by that same owner.
NoCall == [fn |-> "none", sender |-> "none", owner |-> "none", nIds |-> 0, nAmounts |-> 0,
           ids |-> <<>>, amounts |-> <<>>, reverted |-> FALSE, ret |-> <<>>,
           follows |-> FALSE, batch |-> <<>>]

RegState == [amountOf |-> amountOf, lastUpdate |-> lastUpdate, lastBatch |-> lastBatch]

\* One storage write plus its AssetUpdated event: the body of set, and of one
\* iteration of setMany's loop.
WriteOne(st, sender, k, a) ==
  [st EXCEPT !.amountOf[sender][k] = a, !.lastUpdate[sender][k] = <<a>>]

\* The for loop of setMany, iterations i..n in order (i is 1-based here).
RECURSIVE SetLoop(_, _, _, _, _, _)
SetLoop(st, sender, ids, amts, i, n) ==
  IF i > n THEN st
  ELSE SetLoop(WriteOne(st, sender, ids[i], amts[i]), sender, ids, amts, i + 1, n)

EmitBatch(st, sender, n) == [st EXCEPT !.lastBatch = <<[owner |-> sender, count |-> n]>>]

\* Faulty variant of SetManyBody: the length check is missing and the common prefix is applied.
SetManyBodyNoRequire(st, sender, ids, amts) ==
  [reverted |-> FALSE,
   st |-> EmitBatch(SetLoop(st, sender, ids, amts, 1, Min(Len(ids), Len(amts))),
                    sender, Len(ids))]

\* Faulty variant of SetManyBody: the loop walks the arrays from the last index down.
SetManyBodyBackwards(st, sender, ids, amts) ==
  IF Len(ids) # Len(amts)
  THEN [reverted |-> TRUE, st |-> st]
  ELSE LET n == Len(ids)
           rev(s) == [i \in 1..n |-> s[n + 1 - i]]
       IN [reverted |-> FALSE,
           st |-> EmitBatch(SetLoop(st, sender, rev(ids), rev(amts), 1, n), sender, n)]

\* setMany: require, loop, batch event.  A failed require reverts the transaction:
\* storage and log are those of the pre-state.
SetManyBody(st, sender, ids, amts) ==
  IF Len(ids) # Len(amts)
  THEN [reverted |-> TRUE, st |-> st]
  ELSE [reverted |-> FALSE,
        st |-> EmitBatch(SetLoop(st, sender, ids, amts, 1, Len(ids)), sender, Len(ids))]

\* Faulty variant of GetManyBody: reads msg.sender's amounts instead of owner's.
GetManyBodyOfSender(m, sender, owner, ids) == [i \in 1..Len(ids) |-> m[sender][ids[i]]]

\* getMany: a fresh array of assetIds.length, filled position by position.
GetManyBody(m, sender, owner, ids) == [i \in 1..Len(ids) |-> m[owner][ids[i]]]

\* Faulty variant of SetBody: the write lands in a fixed account instead of msg.sender's.
SetBodyFixedOwner(st, sender, k, a) == WriteOne(st, "alice", k, a)

SetBody(st, sender, k, a) == WriteOne(st, sender, k, a)

RegInit ==
  /\ amountOf = [o \in Owners |-> [k \in AssetIds |-> 0]]
  /\ lastUpdate = [o \in Owners |-> [k \in AssetIds |-> <<>>]]
  /\ lastBatch = <<>>
  /\ lastCall = NoCall

set(sender, k, a) ==
  \E st \in {SetBody(RegState, sender, k, a)} :
     /\ amountOf' = st.amountOf
     /\ lastUpdate' = st.lastUpdate
     /\ lastBatch' = st.lastBatch
     /\ lastCall' = [NoCall EXCEPT !.fn = "set", !.sender = sender, !.owner = sender,
                                   !.nIds = 1, !.nAmounts = 1,
                                   !.ids = <<k>>, !.amounts = <<a>>]
     /\ UNCHANGED notReg

setMany(sender, ids, amts) ==
  \E r \in {SetManyBody(RegState, sender, ids, amts)} :
     /\ amountOf' = r.st.amountOf
     /\ lastUpdate' = r.st.lastUpdate
     /\ lastBatch' = r.st.lastBatch
     /\ lastCall' = [NoCall EXCEPT !.fn = "setMany", !.sender = sender, !.owner = sender,
                                   !.nIds = Len(ids), !.nAmounts = Len(amts),
                                   !.ids = IF r.reverted THEN <<>> ELSE ids,
                                   !.amounts = IF r.reverted THEN <<>> ELSE amts,
                                   !.reverted = r.reverted]
     /\ UNCHANGED notReg

getMany(sender, owner, ids) ==
  LET follows == /\ lastCall.fn = "setMany"
                 /\ ~lastCall.reverted
                 /\ lastCall.sender = owner
                 /\ lastCall.ids = ids
  IN /\ UNCHANGED <<amountOf, lastUpdate, lastBatch>>
     /\ lastCall' = [NoCall EXCEPT !.fn = "getMany", !.owner = owner,
                                   !.nIds = Len(ids), !.ids = ids,
                                   !.ret = GetManyBody(amountOf, sender, owner, ids),
                                   !.follows = follows,
                                   !.batch = IF follows THEN lastCall.amounts ELSE <<>>]
     /\ UNCHANGED notReg

IdSeqs == SeqsUpTo(AssetIds, MaxLen)        \* bytes32[] calldata inputs
AmountSeqs == SeqsUpTo(Amounts, MaxLen)     \* uint128[] calldata inputs

RegSet == \E s \in Owners, k \in AssetIds, a \in Amounts : set(s, k, a)

RegSetMany ==
  \E s \in Owners, ids \in IdSeqs, amts \in AmountSeqs :
    setMany(s, ids, amts)

RegGetMany ==
  \E s \in Owners, o \in Owners, ids \in IdSeqs : getMany(s, o, ids)

RegNext == RegSet \/ RegSetMany \/ RegGetMany

(***************************************************************************)
(* Price proxy: GET /api/prices                                            *)
(*                                                                         *)
(* A string is a sequence of characters.  The five DEFAULT_IDS are each    *)
(* written as a one-character string whose character is the whole id.      *)
(***************************************************************************)
Chars == {"a", "b", " ", ","}      \* alphabet of the `ids` query parameter

DEFAULT_IDS ==
  << <<"coingecko:bitcoin">>, <<"coingecko:ethereum">>, <<"coingecko:solana">>,
     <<"coingecko:base-ecosystem-token">>, <<"coingecko:chainlink">> >>

\* String.prototype.split(","): the pieces between commas, "" included.
RECURSIVE SplitFrom(_, _, _)
SplitFrom(str, i, piece) ==
  IF i > Len(str) THEN <<piece>>
  ELSE IF str[i] = "," THEN <<piece>> \o SplitFrom(str, i + 1, <<>>)
  ELSE SplitFrom(str, i + 1, Append(piece, str[i]))

Split(str) == SplitFrom(str, 1, <<>>)

\* String.prototype.trim(): whitespace is dropped at both ends only.
RECURSIVE TrimStart(_)
TrimStart(str) ==
  IF str # <<>> /\ Head(str) = " " THEN TrimStart(Tail(str)) ELSE str

RECURSIVE TrimEnd(_)
TrimEnd(str) ==
  IF str # <<>> /\ str[Len(str)] = " " THEN TrimEnd(SubSeq(str, 1, Len(str) - 1)) ELSE str

Trim(str) == TrimEnd(TrimStart(str))

\* idsParam is null (hasIds = FALSE) or a string; the empty string is falsy.
ParseIds(req) ==
  LET raw == IF req.hasIds /\ req.idsParam # <<>> THEN Split(req.idsParam) ELSE DEFAULT_IDS
  IN [i \in 1..Len(raw) |-> Trim(raw[i])]

\* JavaScript values met in the upstream body and the numbers made from them.
\* A finite number is v * 10^e; Infinity carries its sign in v.
JsUndefined == [t |-> "undefined", v |-> 0, e |-> 0]
JsNull == [t |-> "null", v |-> 0, e |-> 0]
JsNumber(n) == [t |-> "number", v |-> n, e |-> 0]
JsNumericString(n) == [t |-> "numeric-string", v |-> n, e |-> 0]
JsText == [t |-> "text", v |-> 0, e |-> 0]
JsNaN == [t |-> "NaN", v |-> 0, e |-> 0]
JsInfinity(sign) == [t |-> "Infinity", v |-> sign, e |-> 0]

\* x ?? 0
OrZero(x) == IF x.t \in {"undefined", "null"} THEN JsNumber(0) ELSE x

\* Number(x)
ToNumber(x) ==
  CASE x.t = "number" -> x
    [] x.t = "numeric-string" -> JsNumber(x.v)
    [] x.t = "null" -> JsNumber(0)
    [] OTHER -> JsNaN

\* Faulty variant of PriceOf: the `?? 0` default is missing.
PriceOfNoDefault(rec) == ToNumber(IF rec.isNull THEN JsUndefined ELSE rec.price)

\* Number(json.coins[key]?.price ?? 0); a null record short-circuits to undefined.
PriceOf(rec) == ToNumber(OrZero(IF rec.isNull THEN JsUndefined ELSE rec.price))

\* json.coins[key]?.symbol
SymbolOf(rec) == IF rec.isNull THEN "undefined" ELSE rec.symbol

\* The "Normalize output" block: one entry per key of json.coins, if there is one.
Normalize(ids, json) ==
  IF ~json.isNull /\ json.hasCoins
  THEN [k \in DOMAIN json.coins |->
          [symbol |-> SymbolOf(json.coins[k]), price |-> PriceOf(json.coins[k])]]
  ELSE <<>>

NoResult == [status |-> 0, hasError |-> FALSE, hasPrices |-> FALSE, prices |-> <<>>]

ErrorResult(code) == [NoResult EXCEPT !.status = code, !.hasError = TRUE]

\* Faulty variant of UpstreamErrorResult: the upstream failure is reported as a success.
UpstreamErrorResultAs200(res) == [NoResult EXCEPT !.status = 200, !.hasError = TRUE]

\* if (!res.ok) return NextResponse.json({ error }, { status: 502 })
UpstreamErrorResult(res) == ErrorResult(502)

\* The catch block.
CaughtResult == ErrorResult(500)

OkResult(pm) == [NoResult EXCEPT !.status = 200, !.hasPrices = TRUE, !.prices = pm]

NoReq == [urlOk |-> TRUE, hasIds |-> FALSE, idsParam |-> <<>>]

NoUpstream == [kind |-> "none", ok |-> FALSE, status |-> 0, json |-> <<>>]

PxInit ==
  /\ pxPc = "idle"
  /\ pxReq = NoReq
  /\ pxIds = <<>>
  /\ pxCalls = 0
  /\ pxUpstream = NoUpstream
  /\ pxThrown = "none"
  /\ pxResult = NoResult

Requests ==
  {[urlOk |-> FALSE, hasIds |-> FALSE, idsParam |-> <<>>], NoReq}
    \cup {[urlOk |-> TRUE, hasIds |-> TRUE, idsParam |-> p] : p \in SeqsUpTo(Chars, MaxParamLen)}

\* GET up to `await fetch(url)`: new URL(request.url) may throw; otherwise the
\* identifier list is built and the one upstream request is issued.
PxInvoke(req) ==
  /\ pxPc \in {"idle", "done"}
  /\ pxReq' = req
  /\ pxUpstream' = NoUpstream
  /\ UNCHANGED notPx
  /\ IF ~req.urlOk
     THEN /\ pxThrown' = "url"
          /\ pxIds' = <<>>
          /\ pxCalls' = 0
          /\ pxResult' = CaughtResult
          /\ pxPc' = "done"
     ELSE /\ pxThrown' = "none"
          /\ pxIds' = ParseIds(req)
          /\ pxCalls' = 1
          /\ pxResult' = NoResult
          /\ pxPc' = "fetching"

\* fetch rejects: the catch block answers.
PxFetchThrows ==
  /\ pxPc = "fetching"
  /\ pxUpstream' = [NoUpstream EXCEPT !.kind = "threw"]
  /\ pxThrown' = "fetch"
  /\ pxResult' = CaughtResult
  /\ pxPc' = "done"
  /\ UNCHANGED <<pxReq, pxIds, pxCalls, notPx>>

\* fetch resolves with a response: !res.ok answers 502, otherwise res.json() is awaited.
PxFetchResponds(ok, status) ==
  /\ pxPc = "fetching"
  /\ pxUpstream' = [NoUpstream EXCEPT !.kind = "response", !.ok = ok, !.status = status]
  /\ IF ~ok
     THEN /\ pxResult' = UpstreamErrorResult(pxUpstream')
          /\ pxPc' = "done"
     ELSE /\ pxResult' = NoResult
          /\ pxPc' = "parsing"
  /\ UNCHANGED <<pxReq, pxIds, pxCalls, pxThrown, notPx>>

\* res.json() rejects (the body is not JSON): the catch block answers.
PxJsonThrows ==
  /\ pxPc = "parsing"
  /\ pxThrown' = "json"
  /\ pxResult' = CaughtResult
  /\ pxPc' = "done"
  /\ UNCHANGED <<pxReq, pxIds, pxCalls, pxUpstream, notPx>>

\* res.json() resolves: normalise and answer 200.
PxJsonParsed(json) ==
  /\ pxPc = "parsing"
  /\ pxUpstream' = [pxUpstream EXCEPT !.json = <<json>>]
  /\ pxResult' = OkResult(Normalize(pxIds, json))
  /\ pxPc' = "done"
  /\ UNCHANGED <<pxReq, pxIds, pxCalls, pxThrown, notPx>>

\* Upstream bodies: null, an object without coins, or { coins: {...} } whose keys
\* are any subset of UpstreamKeys.
UpstreamKeys == {<<"a">>, <<"b">>}

CoinRecords ==
  {[isNull |-> TRUE, symbol |-> "undefined", price |-> JsUndefined]}
    \cup [isNull : {FALSE}, symbol : {"undefined", "SYM"},
          price : {JsUndefined, JsNull, JsNumber(3), JsText}]

JsonBodies ==
  {[isNull |-> TRUE, hasCoins |-> FALSE, coins |-> <<>>],
   [isNull |-> FALSE, hasCoins |-> FALSE, coins |-> <<>>]}
    \cup {[isNull |-> FALSE, hasCoins |-> TRUE, coins |-> c] :
            c \in UNION {[K -> CoinRecords] : K \in SUBSET UpstreamKeys}}

HttpStatuses == {200, 404, 500}     \* res.ok is true for 2xx only

PxGet == \E req \in Requests : PxInvoke(req)

PxResponse == \E st \in HttpStatuses : PxFetchResponds(st = 200, st)

PxBody == \E json \in JsonBodies : PxJsonParsed(json)

PxNext == PxGet \/ PxFetchThrows \/ PxResponse \/ PxJsonThrows \/ PxBody

(***************************************************************************)
(* Portfolio view                                                          *)
(***************************************************************************)
Decimals == 18

\* Identifiers offered by AssetPicker (two of its fourteen options).
PickerIds == {"coingecko:bitcoin", "coingecko:ethereum"}

InitialHoldings ==
  << [id |-> "coingecko:bitcoin", amount |-> JsNumber(0)],
     [id |-> "coingecko:ethereum", amount |-> JsNumber(0)] >>

\* holdings.map((h) => h.id).join(","): the ids with a "," between neighbours.
RECURSIVE JoinFrom(_, _)
JoinFrom(hs, i) ==
  IF i > Len(hs) THEN <<>>
  ELSE IF i = Len(hs) THEN <<hs[i].id>>
  ELSE <<hs[i].id, ",">> \o JoinFrom(hs, i + 1)

Ids(hs) == JoinFrom(hs, 1)

isFinite(x) == x.t = "number"

\* v * 10^e with the trailing decimal zeros of v moved into e.
RECURSIVE Scaled(_, _)
Scaled(v, e) ==
  IF v = 0 THEN JsNumber(0)
  ELSE IF v % 10 = 0 THEN Scaled(v \div 10, e + 1)
  ELSE [t |-> "number", v |-> v, e |-> e]

\* Number(formatUnits(x, 18)) for a uint128 x.
FromUnits(x) == Scaled(x, 0 - Decimals)

\* a * b on JavaScript numbers.
Times(a, b) ==
  IF a.t = "NaN" \/ b.t = "NaN" THEN JsNaN
  ELSE IF a.t = "Infinity" \/ b.t = "Infinity"
       THEN IF a.v = 0 \/ b.v = 0 THEN JsNaN
            ELSE JsInfinity(IF (a.v < 0) = (b.v < 0) THEN 1 ELSE -1)
  ELSE Scaled(a.v * b.v, a.e + b.e)

\* prices[h.id]?.price ?? 0
PriceFor(pm, id) == IF id \in DOMAIN pm THEN OrZero(pm[id]) ELSE JsNumber(0)

\* const value = h.amount * price
Value(h, pm) == Times(h.amount, PriceFor(pm, h.id))

NoResp == [kind |-> "none", ignore |-> FALSE, superseded |-> FALSE, data |-> <<>>]

ViewInit ==
  /\ mounted = FALSE
  /\ holdings = InitialHoldings
  /\ prices = <<>>
  /\ loading = FALSE
  /\ error = "null"
  /\ inflight = <<>>
  /\ lastResp = NoResp

Poll == [loading |-> loading, error |-> error, inflight |-> inflight]

\* fetchPrices up to its await: setLoading(true), setError(null), the request goes out.
\* `superseded` notes that the effect instance owning the request has been replaced.
FetchStart(p) ==
  [loading |-> TRUE, error |-> "null",
   inflight |-> Append(p.inflight, [ignore |-> FALSE, superseded |-> FALSE])]

\* Faulty variant of Cleanup: the interval is cleared but `ignore` is left false.
CleanupKeepsFlag(p) ==
  [p EXCEPT !.inflight = [i \in 1..Len(p.inflight) |->
                            [p.inflight[i] EXCEPT !.superseded = TRUE]]]

\* The effect's cleanup: ignore = true for the instance being replaced (its
\* requests are the ones not yet superseded), and its interval is cleared.
Cleanup(p) ==
  [p EXCEPT !.inflight = [i \in 1..Len(p.inflight) |->
                            IF p.inflight[i].superseded THEN p.inflight[i]
                            ELSE [ignore |-> TRUE, superseded |-> TRUE]]]

\* The effect body for identifier string ids: if (ids.length) fetchPrices().
EffectRun(p, ids) == IF Len(ids) > 0 THEN FetchStart(p) ELSE p

\* A render with new holdings: the [ids] effect is cleaned up and run again
\* exactly when the joined identifier string differs.
Rerender(p, old, new) ==
  IF Ids(new) = Ids(old) THEN p ELSE EffectRun(Cleanup(p), Ids(new))

SetHoldings(new) ==
  \E p \in {Rerender(Poll, holdings, new)} :
    /\ Len(p.inflight) <= MaxInflight
    /\ holdings' = new
    /\ loading' = p.loading
    /\ error' = p.error
    /\ inflight' = p.inflight
    /\ lastResp' = NoResp
    /\ UNCHANGED <<mounted, prices, notView>>

\* First render: the effect runs for the initial identifier string.
Mount ==
  /\ ~mounted
  /\ mounted' = TRUE
  /\ \E p \in {EffectRun(Poll, Ids(holdings))} :
       /\ loading' = p.loading
       /\ error' = p.error
       /\ inflight' = p.inflight
  /\ lastResp' = NoResp
  /\ UNCHANGED <<holdings, prices, notView>>

\* AssetPicker onPick: setHoldings((prev) => [...prev, asset]); options have amount 0.
OnPick(id) ==
  /\ mounted
  /\ Len(holdings) < MaxHoldings
  /\ SetHoldings(Append(holdings, [id |-> id, amount |-> JsNumber(0)]))

\* removeRow(index) from a row's Remove button (i is 1-based here).
RemoveRow(i) ==
  /\ mounted
  /\ i \in 1..Len(holdings)
  /\ SetHoldings(SubSeq(holdings, 1, i - 1) \o SubSeq(holdings, i + 1, Len(holdings)))

\* isFinite(nextAmount) ? nextAmount : 0
Clamp(x) == IF isFinite(x) THEN x ELSE JsNumber(0)

\* updateAmount(index, nextAmount) from a row's input (i is 1-based here).
UpdateAmount(i, x) ==
  /\ mounted
  /\ i \in 1..Len(holdings)
  /\ SetHoldings([holdings EXCEPT ![i].amount = Clamp(x)])

\* The [chainAmounts] effect: every amount is overwritten by position,
\* chainAmounts[i] ?? 0n converted from 18-decimal fixed point.
ChainLoad(chainAmounts) ==
  /\ mounted
  /\ SetHoldings([i \in 1..Len(holdings) |->
       [holdings[i] EXCEPT !.amount =
          FromUnits(IF i <= Len(chainAmounts) THEN chainAmounts[i] ELSE 0)]])

\* The setInterval callback of the current effect instance.
Tick ==
  /\ mounted
  /\ \E p \in {EffectRun(Poll, Ids(holdings))} :
       /\ Len(p.inflight) <= MaxInflight
       /\ loading' = p.loading
       /\ error' = p.error
       /\ inflight' = p.inflight
  /\ lastResp' = NoResp
  /\ UNCHANGED <<mounted, holdings, prices, notView>>

RemoveAt(s, i) == SubSeq(s, 1, i - 1) \o SubSeq(s, i + 1, Len(s))

\* Faulty variant of OnSuccess: the response is merged into the previous mapping.
OnSuccessMerge(st, req, data) ==
  IF req.ignore THEN st
  ELSE [st EXCEPT !.prices = [k \in DOMAIN st.prices \cup DOMAIN data.prices |->
                                IF k \in DOMAIN data.prices THEN data.prices[k]
                                ELSE st.prices[k]],
                  !.loading = FALSE]

\* try-branch and finally of fetchPrices after a successful response:
\* if (!ignore) setPrices(data.prices || {}); if (!ignore) setLoading(false).
OnSuccess(st, req, data) ==
  IF req.ignore THEN st
  ELSE [st EXCEPT !.prices = IF data.hasPrices THEN data.prices ELSE <<>>,
                  !.loading = FALSE]

\* catch-branch and finally of fetchPrices: if (!ignore) setError(message);
\* if (!ignore) setLoading(false).
OnFailure(st, req, message) ==
  IF req.ignore THEN st
  ELSE [st EXCEPT !.error = message, !.loading = FALSE]

ViewState == [prices |-> prices, loading |-> loading, error |-> error]

\* Request i resolves with res.ok and a JSON body.
RespOk(i, data) ==
  /\ i \in 1..Len(inflight)
  /\ \E st \in {OnSuccess(ViewState, inflight[i], data)} :
       /\ prices' = st.prices
       /\ loading' = st.loading
       /\ error' = st.error
  /\ inflight' = RemoveAt(inflight, i)
  /\ lastResp' = [kind |-> "ok", ignore |-> inflight[i].ignore,
                  superseded |-> inflight[i].superseded,
                  data |-> IF data.hasPrices THEN data.prices ELSE <<>>]
  /\ UNCHANGED <<mounted, holdings, notView>>

\* Request i fails: !res.ok ("Price API error: <status>"), or fetch or res.json() rejects.
RespFail(i, message) ==
  /\ i \in 1..Len(inflight)
  /\ \E st \in {OnFailure(ViewState, inflight[i], message)} :
       /\ prices' = st.prices
       /\ loading' = st.loading
       /\ error' = st.error
  /\ inflight' = RemoveAt(inflight, i)
  /\ lastResp' = [kind |-> "fail", ignore |-> inflight[i].ignore,
                  superseded |-> inflight[i].superseded, data |-> <<>>]
  /\ UNCHANGED <<mounted, holdings, notView>>

\* Inputs.
AmountInputs == {JsNumber(2), JsNumber(-2), JsNaN, JsInfinity(1)}

ChainAmountSeqs == SeqsUpTo({0, 5}, MaxHoldings)

PriceMaps == UNION {[K -> {JsNumber(3)}] : K \in SUBSET PickerIds}

ResponseBodies ==
  {[hasPrices |-> FALSE, prices |-> <<>>]}
    \cup {[hasPrices |-> TRUE, prices |-> pm] : pm \in PriceMaps}

FailureMessages == {"Price API error: 502", "Failed to fetch"}

ViewPick == \E id \in PickerIds : OnPick(id)

ViewRemove == \E i \in 1..MaxHoldings : RemoveRow(i)

ViewUpdate == \E i \in 1..MaxHoldings, x \in AmountInputs : UpdateAmount(i, x)

ViewChainLoad == \E ca \in ChainAmountSeqs : ChainLoad(ca)

ViewRespOk == \E i \in 1..MaxInflight, data \in ResponseBodies : RespOk(i, data)

ViewRespFail == \E i \in 1..MaxInflight, m \in FailureMessages : RespFail(i, m)

ViewNext ==
  \/ Mount
  \/ ViewPick
  \/ ViewRemove
  \/ ViewUpdate
  \/ ViewChainLoad
  \/ Tick
  \/ ViewRespOk
  \/ ViewRespFail

Init == RegInit /\ PxInit /\ ViewInit

SpecRegistry == Init /\ [][RegNext]_vars

SpecProxy == Init /\ [][PxNext]_vars

SpecView == Init /\ [][ViewNext]_vars

(***************************************************************************)
(* Claims                                                                  *)
(***************************************************************************)

\* Position of the last occurrence of ids[i] in ids.
LastIndexOf(ids, i) == CHOOSE j \in 1..Len(ids) :
  ids[j] = ids[i] /\ \A m \in (j + 1)..Len(ids) : ids[m] # ids[i]

\* C1 as stated: a successful setMany(ids, amounts) directly followed by
\* getMany(owner, ids) for the same owner returns exactly amounts, also when an
\* identifier occurs more than once in ids.
C1_RoundTripExact ==
  (lastCall.fn = "getMany" /\ lastCall.follows) => lastCall.ret = lastCall.batch

\* C1 amended: the read returns, at every position i, the amount the batch wrote at
\* the last position holding ids[i]; so it returns exactly amounts whenever no
\* identifier recurs with a different amount.
C1_RoundTripLastWins ==
  (lastCall.fn = "getMany" /\ lastCall.follows) =>
    /\ Len(lastCall.ret) = Len(lastCall.batch)
    /\ \A i \in 1..Len(lastCall.ids) :
         lastCall.ret[i] = lastCall.batch[LastIndexOf(lastCall.ids, i)]
    /\ (\A i, j \in 1..Len(lastCall.ids) :
          lastCall.ids[i] = lastCall.ids[j] => lastCall.batch[i] = lastCall.batch[j])
         => lastCall.ret = lastCall.batch

C1_Witness ==
  /\ lastCall.fn = "getMany"
  /\ lastCall.follows
  /\ Len(lastCall.ids) = 2
  /\ lastCall.ids[1] = lastCall.ids[2]
  /\ lastCall.batch = <<1, 0>>
  /\ lastCall.ret = <<0, 0>>

\* C2: a setMany call whose two arrays differ in length reverts, and storage and
\* event log are exactly what they were before the call.
C2_MismatchReverts ==
  [][(lastCall'.fn = "setMany" /\ lastCall'.nIds # lastCall'.nAmounts) =>
       /\ lastCall'.reverted
       /\ amountOf' = amountOf
       /\ lastUpdate' = lastUpdate
       /\ lastBatch' = lastBatch]_vars

C2_Witness ==
  /\ lastCall.fn = "setMany"
  /\ lastCall.reverted
  /\ lastCall.nIds = 2
  /\ lastCall.nAmounts = 1
  /\ amountOf[lastCall.sender]["k1"] = 1
  /\ lastBatch # <<>>

\* C4: a stored amount changes only through a successful set / setMany of its
\* owner that names its identifier; getMany changes nothing; an entry once
\* written is never removed.
C4_OnlyOwnerWrites ==
  [][/\ \A o \in Owners, k \in AssetIds :
          amountOf'[o][k] # amountOf[o][k] =>
            /\ lastCall'.fn \in {"set", "setMany"}
            /\ ~lastCall'.reverted
            /\ lastCall'.sender = o
            /\ k \in Range(lastCall'.ids)
     /\ lastCall'.fn = "getMany" => amountOf' = amountOf
     /\ \A o \in Owners, k \in AssetIds :
          lastUpdate[o][k] # <<>> => lastUpdate'[o][k] # <<>>]_vars

C4_Witness ==
  /\ lastCall.fn = "setMany"
  /\ ~lastCall.reverted
  /\ lastCall.sender = "bob"
  /\ lastCall.ids = <<"k1">>
  /\ lastCall.amounts = <<0>>
  /\ amountOf["alice"]["k1"] = 1
  /\ amountOf["bob"]["k2"] = 1

\* The amount of the latest AssetUpdated entry for (o, k); zero when there is none.
LastWritten(o, k) == IF lastUpdate[o][k] = <<>> THEN 0 ELSE lastUpdate[o][k][1]

\* C5: getMany never fails and returns, aligned with ids, the amount last written
\* by that owner for each identifier, zero for one never written.
C5_GetManyReadsLastWritten ==
  lastCall.fn = "getMany" =>
    /\ ~lastCall.reverted
    /\ Len(lastCall.ret) = Len(lastCall.ids)
    /\ \A i \in 1..Len(lastCall.ids) :
         lastCall.ret[i] = LastWritten(lastCall.owner, lastCall.ids[i])

C5_Witness ==
  /\ lastCall.fn = "getMany"
  /\ lastCall.owner = "bob"
  /\ lastCall.ids = <<"k2", "k1">>
  /\ lastCall.ret = <<1, 0>>
  /\ lastUpdate["bob"]["k1"] = <<>>
  /\ lastUpdate["alice"]["k1"] = <<1>>

\* C6: every finished GET invocation has exactly one of three outcomes, 502 with an
\* error for a non-success upstream response, 500 with an error for a thrown
\* exception, 200 with a prices mapping for an upstream success and nothing else;
\* and no invocation issues more than one upstream request.
C6_ProxyOutcomes ==
  /\ pxCalls <= 1
  /\ pxPc = "done" =>
       /\ pxResult.status \in {200, 500, 502}
       /\ (pxUpstream.kind = "response" /\ ~pxUpstream.ok) =>
            (pxResult.status = 502 /\ pxResult.hasError /\ ~pxResult.hasPrices)
       /\ pxThrown # "none" =>
            (pxResult.status = 500 /\ pxResult.hasError /\ ~pxResult.hasPrices)
       /\ pxResult.status = 200 <=>
            (pxUpstream.kind = "response" /\ pxUpstream.ok /\ pxThrown = "none")
       /\ pxResult.status = 200 => (pxResult.hasPrices /\ ~pxResult.hasError)

C6_Witness ==
  /\ pxPc = "done"
  /\ pxUpstream.kind = "response"
  /\ pxUpstream.status = 404
  /\ pxResult.status = 502
  /\ pxResult.hasError
  /\ pxCalls = 1

\* The body res.json() resolved with.
UpstreamJson == pxUpstream.json[1]

UpstreamCoinKeys ==
  IF ~UpstreamJson.isNull /\ UpstreamJson.hasCoins THEN DOMAIN UpstreamJson.coins ELSE {}

PriceAbsent(rec) == rec.isNull \/ rec.price.t \in {"undefined", "null"}

\* C7 as stated: a request with ids=a,b and an upstream success returns exactly two
\* entries, keyed a and b, whatever record set the upstream returns.
C7_KeysAreRequested ==
  (/\ pxPc = "done"
   /\ pxResult.status = 200
   /\ pxIds = << <<"a">>, <<"b">> >>) => DOMAIN pxResult.prices = {<<"a">>, <<"b">>}

\* C7 amended: the key set of a 200 response is the key set of the upstream's coins
\* object (empty without one), so it is the requested set exactly when the upstream
\* returns a record for exactly the requested identifiers; an entry whose price is
\* absent upstream has price zero.
C7_KeysAreUpstream ==
  (pxPc = "done" /\ pxResult.status = 200) =>
    /\ DOMAIN pxResult.prices = UpstreamCoinKeys
    /\ UpstreamCoinKeys = Range(pxIds) => DOMAIN pxResult.prices = Range(pxIds)
    /\ \A k \in UpstreamCoinKeys :
         PriceAbsent(UpstreamJson.coins[k]) => pxResult.prices[k].price = JsNumber(0)

C7_Witness ==
  /\ pxPc = "done"
  /\ pxResult.status = 200
  /\ pxReq.idsParam = <<"a", ",", "b">>
  /\ pxIds = << <<"a">>, <<"b">> >>
  /\ DOMAIN pxResult.prices = {<<"a">>, <<"b">>}
  /\ UpstreamJson.coins[<<"a">>].price = JsUndefined
  /\ pxResult.prices[<<"a">>].price = JsNumber(0)
  /\ pxResult.prices[<<"b">>].price = JsNumber(3)

\* C3: a response (success or failure) to a request of a superseded effect instance
\* changes neither prices nor error nor loading.
C3_StaleResponseIgnored ==
  [][(lastResp'.kind # "none" /\ lastResp'.superseded) =>
       (prices' = prices /\ error' = error /\ loading' = loading)]_vars

C3_Witness ==
  /\ lastResp.kind = "ok"
  /\ lastResp.superseded
  /\ Len(holdings) = 1
  /\ prices # <<>>
  /\ lastResp.data # <<>>
  /\ lastResp.data # prices

\* C8: a failed poll of the current effect instance leaves the price mapping as it
\* was and sets a non-null error; a successful one replaces the whole mapping by the
\* response's mapping.
C8_FailKeepsSuccessReplaces ==
  [][/\ (lastResp'.kind = "fail" /\ ~lastResp'.superseded) =>
          (prices' = prices /\ error' # "null")
     /\ (lastResp'.kind = "ok" /\ ~lastResp'.superseded) =>
          prices' = lastResp'.data]_vars

C8_Witness ==
  /\ lastResp.kind = "fail"
  /\ ~lastResp.superseded
  /\ prices # <<>>
  /\ error = "Price API error: 502"

\* C9: every holding's amount is a finite number that is never negative, and so is
\* each holding's value amount * price.
C9_AmountsFiniteNonNegative ==
  \A i \in 1..Len(holdings) :
    /\ isFinite(holdings[i].amount)
    /\ holdings[i].amount.v >= 0
    /\ isFinite(Value(holdings[i], prices))
    /\ Value(holdings[i], prices).v >= 0

\* C10: whenever no price request is in flight the loading flag is false.
C10_IdleImpliesNotLoading == inflight = <<>> => ~loading
====
